---- MODULE Spec2Model ----
(***************************************************************************)
(* A model of the ProvAuditor skill (src/__init__.py) and of its calls to  *)
(* the external provenance tools (src/skill/provtools.py).                 *)
(*                                                                         *)
(* State: the fields of the ProvAuditor object, the record files below its *)
(* bindings folder, the host's current Session object, and observation     *)
(* variables (what was appended, what was minted, what the last handler    *)
(* did) that the code does not keep but the properties speak about.        *)
(* Strings built by the code with f-strings are built here with \o and     *)
(* ToString; a session's session_id is written "s<n>" for Session object n.*)
(***************************************************************************)
EXTENDS Integers, Sequences, FiniteSets, TLC

\* ------------------------------------------------------------------ bounds
MaxSessions == 3    \* Session objects the host creates
MaxAppends  == 2    \* intent and skill-invocation notifications that append bindings
MaxMinted   == 3    \* utterance and intent identifiers minted in one process lifetime
MaxFail     == 1    \* storage faults injected into persist_bindings

\* ------------------------------------------------------------------ inputs
None == "None"                       \* Python's None, where a string may stand
NoSession == 0                       \* self.session is None
NoCounters == <<>>                   \* self.id_counters is None
Kinds == {"utterance", "intent"}     \* the id_kind arguments the handlers pass
Utterances == {<<"hi", "hey">>, <<"hey", "hi">>}   \* message.data["utterances"]
Skills == {"weather", "news"}        \* skill ids (message sender / msg_type prefix)
Coordinates == {<<45, 133>>, <<133, 45>>}          \* (latitude, longitude)
NoGeo == <<>>                        \* a message without latitude and longitude
Timestamp == "t0"                    \* message.context["timestamp"], as isoformat
Faults == {"ok", "mkdir", "open", "write"}         \* where a flush may fail
Narratives == {<<>>, <<" ", "">>, <<"A.", " ", "B.">>}  \* narrative text, split on blank lines
ToolOutcomes == {"exit0", "exit1", "never"}   \* a tool exits with status 0, or 1, or never does

VARIABLES
    hostSession,            \* what SessionManager.get() returns: a Session object
    touched,                \* the Session objects touched again after midnight
    session,                \* self.session
    id_counters,            \* self.id_counters
    utterance_id_cache,     \* self.utterance_id_cache
    geolocation_id_cache,   \* self.geolocation_id_cache
    intent_id_cache,        \* self.intent_id_cache
    bindings,               \* self.bindings, the unflushed buffer
    folders,                \* date folders that exist below path_bindings
    files,                  \* record file -> its rows (CSV fields)
    log,                    \* the "bindings saved" log entries of persist_bindings
    uuids,                  \* uuid4() values drawn so far
    phase,                  \* "up" until shutdown() has run, then "down"; while the
                            \* audit handler waits in p.communicate(), the tool
                            \* it waits for and what that tool will do
    appended,               \* observation: every binding appended, in order
    minted,                 \* observation: every identifier minted, with its rank
    nfail,                  \* observation: storage faults so far
    lastOp                  \* observation: what the last handler did

vars == <<hostSession, touched, session, id_counters, utterance_id_cache,
          geolocation_id_cache, intent_id_cache, bindings, folders, files, log,
          uuids, phase, appended, minted, nfail, lastOp>>

host == <<hostSession, touched>>
caches == <<utterance_id_cache, geolocation_id_cache, intent_id_cache>>
disk == <<folders, files, log>>

\* ---------------------------------------------------------------- helpers
Range(s) == {s[i] : i \in DOMAIN s}

RECURSIVE SelectSeqBy(_, _)
\* the subsequence of s whose elements are in the set keep
SelectSeqBy(s, keep) ==
    IF s = <<>> THEN <<>>
    ELSE IF Head(s) \in keep THEN <<Head(s)>> \o SelectSeqBy(Tail(s), keep)
    ELSE SelectSeqBy(Tail(s), keep)

RECURSIVE Flatten(_)
Flatten(ss) == IF ss = <<>> THEN <<>> ELSE Head(ss) \o Flatten(Tail(ss))

Perms(S) == {p \in [1..Cardinality(S) -> S] : \A i, j \in DOMAIN p : i # j => p[i] # p[j]}

session_id(s) == "s" \o ToString(s)

\* the calendar day of Session object s's touch_time: the host opens two
\* sessions a day, and a session it touches after midnight is of the next day
touch_time(s) == (s + 1) \div 2 + (IF s \in touched THEN 1 ELSE 0)

\* the observation of one minted identifier: the n-th of its kind while
\* Session object s was tracked (NoSession for the user-scoped kinds)
Mint(set, kind, s, id) ==
    [kind |-> kind, session |-> s, id |-> id, host |-> hostSession,
     nth |-> Cardinality({m \in set : m.kind = kind /\ m.session = s}) + 1]

\* the number of get_id calls so far
Allocations == Cardinality({m \in minted : m.kind \in Kinds})

\* the number of notifications that appended bindings so far
Appends == Cardinality({i \in DOMAIN appended : appended[i].row[1] # "user_datapoint"})

\* what one handler did, for the properties to read
Op(name, raised, flush, tools, spoken, corpus) ==
    [op |-> name, raised |-> raised, flush |-> flush, tools |-> tools,
     spoken |-> spoken, corpus |-> corpus]

\* ------------------------------------------------------- binding records
IntentMatchingBinding(user, assistant, utterance, value, intent, intent_type, skill, intent_data, timestamp) ==
    <<"intent_matching", user, assistant, utterance, value, intent, intent_type,
      skill, intent_data, timestamp>>

UserDatapointBinding(user, user_datapoint, data_type, value) ==
    <<"user_datapoint", user, user_datapoint, data_type, value>>

SkillInvocationBinding(skill, service, intent, user_ip, user_datapoint, request, req_type, req_data, req_timestamp, response, res_type, res_data, res_timestamp, service_call) ==
    <<"skill_invocation", skill, service, intent, user_ip, user_datapoint,
      request, req_type, req_data, req_timestamp,
      response, res_type, res_data, res_timestamp, service_call>>

\* csv.writer: None is written as the empty field, a string as itself
CsvField(x) == IF x = None THEN "" ELSE x
CsvRow(b) == [i \in DOMAIN b |-> CsvField(b[i])]
CsvRows(bs) == [i \in DOMAIN bs |-> CsvRow(bs[i])]

\* ------------------------------------------------------------ identifiers
get_user_id == "users/3259"
get_user_data_id(data_id) == get_user_id \o "/" \o data_id

\* the identifier get_id returns once the counter of id_kind has become n
IdOf(id_kind, s, n) == id_kind \o "/" \o session_id(s) \o "/" \o ToString(n)

\* get_id returning the identifier of the counter before the increment
get_id_stale(counters, s, id_kind) ==
    [counters |-> [counters EXCEPT ![id_kind] = @ + 1],
     id |-> IdOf(id_kind, s, counters[id_kind])]

\* get_id: the counters after the increment, and the identifier returned
get_id(counters, s, id_kind) ==
    LET next == [counters EXCEPT ![id_kind] = @ + 1]
    IN  [counters |-> next, id |-> IdOf(id_kind, s, next[id_kind])]

\* ---------------------------------------------------------------- storage
folder_path(s) == touch_time(s)

\* file_path naming the record file after the day alone
file_path_byday(s) == <<touch_time(s), 0>>

file_path(s) == <<touch_time(s), s>>

\* persist_bindings forgetting the buffer before it writes
persist_bindings_clearfirst(fault, k) ==
    LET made == folders \cup {folder_path(session)}
        old == IF file_path(session) \in DOMAIN files THEN files[file_path(session)] ELSE <<>>
        wrote(rows) == [f \in DOMAIN files \cup {file_path(session)} |->
                          IF f = file_path(session) THEN old \o rows ELSE files[f]]
    IN  IF bindings = <<>>
            THEN [bindings |-> bindings, folders |-> folders, files |-> files, log |-> log,
                  raised |-> "none", flush |-> "nothing"]
        ELSE IF session = NoSession
            THEN [bindings |-> <<>>, folders |-> folders, files |-> files, log |-> log,
                  raised |-> "AttributeError", flush |-> "raised"]
        ELSE IF fault # "ok"
            THEN [bindings |-> <<>>, folders |-> IF fault = "mkdir" THEN folders ELSE made,
                  files |-> IF fault = "write" THEN wrote(SubSeq(CsvRows(bindings), 1, k)) ELSE files,
                  log |-> log, raised |-> "OSError", flush |-> "raised"]
        ELSE [bindings |-> <<>>, folders |-> made, files |-> wrote(CsvRows(bindings)),
              log |-> Append(log, <<Len(bindings), file_path(session)>>),
              raised |-> "none", flush |-> "saved"]

\* persist_bindings without the early return on an empty buffer
persist_bindings_noguard(fault, k) ==
    LET made == folders \cup {folder_path(session)}
        old == IF file_path(session) \in DOMAIN files THEN files[file_path(session)] ELSE <<>>
        wrote(rows) == [f \in DOMAIN files \cup {file_path(session)} |->
                          IF f = file_path(session) THEN old \o rows ELSE files[f]]
    IN  IF session = NoSession
            THEN [bindings |-> bindings, folders |-> folders, files |-> files, log |-> log,
                  raised |-> "AttributeError", flush |-> "raised"]
        ELSE IF fault # "ok"
            THEN [bindings |-> bindings, folders |-> IF fault = "mkdir" THEN folders ELSE made,
                  files |-> IF fault = "write" THEN wrote(SubSeq(CsvRows(bindings), 1, k)) ELSE files,
                  log |-> log, raised |-> "OSError", flush |-> "raised"]
        ELSE [bindings |-> <<>>, folders |-> made, files |-> wrote(CsvRows(bindings)),
              log |-> Append(log, <<Len(bindings), file_path(session)>>),
              raised |-> "none", flush |-> "saved"]

\* persist_bindings, with the storage fault injected (fault) and, for a write
\* that fails, the number k of rows that had reached the file when it failed
persist_bindings(fault, k) ==
    LET same == [bindings |-> bindings, folders |-> folders, files |-> files, log |-> log]
        old == IF file_path(session) \in DOMAIN files THEN files[file_path(session)] ELSE <<>>
        made == folders \cup {folder_path(session)}
        wrote(rows) == [f \in DOMAIN files \cup {file_path(session)} |->
                          IF f = file_path(session) THEN old \o rows ELSE files[f]]
    IN  IF bindings = <<>> THEN same @@ [raised |-> "none", flush |-> "nothing"]
        ELSE IF session = NoSession
            THEN same @@ [raised |-> "AttributeError", flush |-> "raised"]
        ELSE IF fault = "mkdir" /\ folder_path(session) \notin folders
            THEN same @@ [raised |-> "OSError", flush |-> "raised"]
        ELSE IF fault = "open"
            THEN [same EXCEPT !.folders = made] @@ [raised |-> "OSError", flush |-> "raised"]
        ELSE IF fault = "write"
            THEN [same EXCEPT !.folders = made,
                              !.files = wrote(SubSeq(CsvRows(bindings), 1, k))]
                 @@ [raised |-> "OSError", flush |-> "raised"]
        ELSE [bindings |-> <<>>, folders |-> made, files |-> wrote(CsvRows(bindings)),
              log |-> Append(log, <<Len(bindings), file_path(session)>>),
              raised |-> "none", flush |-> "saved"]

\* whether persist_bindings(fault, k) is a run the storage can produce
FaultApplies(fault, k) ==
    IF bindings = <<>> \/ session = NoSession THEN fault = "ok" /\ k = 0
    ELSE /\ fault = "write" => k <= Len(bindings)
         /\ fault # "write" => k = 0
         /\ fault = "mkdir" => folder_path(session) \notin folders
         /\ fault # "ok" => nfail < MaxFail

Init ==
    /\ hostSession = 1
    /\ touched = {}
    /\ session = NoSession
    /\ id_counters = NoCounters
    /\ utterance_id_cache = <<>>
    /\ geolocation_id_cache = <<>>
    /\ intent_id_cache = <<>>
    /\ bindings = <<>>
    /\ folders = {}
    /\ files = <<>>
    /\ log = <<>>
    /\ uuids = 0
    /\ phase = "up"
    /\ appended = <<>>
    /\ minted = {}
    /\ nfail = 0
    /\ lastOp = Op("init", "none", "none", <<>>, <<>>, <<>>)

\* the host runtime replaces its current Session object (SessionManager.get()
\* makes a new one when the old one has expired)
NewSession ==
    /\ phase = "up"
    /\ hostSession < MaxSessions
    /\ hostSession' = hostSession + 1
    /\ lastOp' = Op("host", "none", "none", <<>>, <<>>, <<>>)
    /\ UNCHANGED <<touched, session, id_counters, caches, bindings, disk, uuids, phase,
                   appended, minted, nfail>>

\* the host touches its current Session object (Session.touch sets touch_time to
\* now) after midnight; it is the second session of its day that is still
\* current then
Touch ==
    /\ phase = "up"
    /\ hostSession % 2 = 0
    /\ hostSession \notin touched
    /\ touched' = touched \cup {hostSession}
    /\ lastOp' = Op("host", "none", "none", <<>>, <<>>, <<>>)
    /\ UNCHANGED <<hostSession, session, id_counters, caches, bindings, disk, uuids,
                   phase, appended, minted, nfail>>

\* dict assignment d[key] = v
Put(d, key, v) == [x \in DOMAIN d \cup {key} |-> IF x = key THEN v ELSE d[x]]

\* check_active_session keeping the utterance cache over a session change
check_active_session_keepcache(fault, k) ==
    LET kept == [session |-> session, id_counters |-> id_counters,
                 utterance_id_cache |-> utterance_id_cache]
        p == persist_bindings(fault, k)
    IN  IF hostSession # session
        THEN IF p.raised # "none" THEN kept @@ p
             ELSE [session |-> hostSession, id_counters |-> [kind \in Kinds |-> 0],
                   utterance_id_cache |-> utterance_id_cache] @@ p
        ELSE kept @@ [bindings |-> bindings, folders |-> folders, files |-> files,
                      log |-> log, raised |-> "none", flush |-> "none"]

\* check_active_session: the fields it leaves behind, and whether its flush raised
check_active_session(fault, k) ==
    LET kept == [session |-> session, id_counters |-> id_counters,
                 utterance_id_cache |-> utterance_id_cache]
        p == persist_bindings(fault, k)
    IN  IF hostSession # session
        THEN IF p.raised # "none" THEN kept @@ p
             ELSE [session |-> hostSession, id_counters |-> [kind \in Kinds |-> 0],
                   utterance_id_cache |-> <<>>] @@ p
        ELSE kept @@ [bindings |-> bindings, folders |-> folders, files |-> files,
                      log |-> log, raised |-> "none", flush |-> "none"]

\* handler_utterance clearing the intent and geolocation caches too when the
\* session has changed
handler_utterance_clearall(utterances, fault, k) ==
    LET c == check_active_session(fault, k)
        g == get_id(c.id_counters, c.session, "utterance")
    IN  /\ phase = "up"
        /\ IF hostSession # session THEN FaultApplies(fault, k) ELSE fault = "ok" /\ k = 0
        /\ c.raised = "none" => Allocations < MaxMinted
        /\ session' = c.session
        /\ bindings' = c.bindings
        /\ folders' = c.folders
        /\ files' = c.files
        /\ log' = c.log
        /\ nfail' = IF c.raised = "OSError" THEN nfail + 1 ELSE nfail
        /\ IF c.raised # "none"
           THEN /\ id_counters' = c.id_counters
                /\ utterance_id_cache' = c.utterance_id_cache
                /\ minted' = minted
           ELSE /\ id_counters' = g.counters
                /\ utterance_id_cache' = Put(c.utterance_id_cache, utterances, g.id)
                /\ minted' = minted \cup {Mint(minted, "utterance", c.session, g.id)}
        /\ lastOp' = Op("utterance", c.raised, c.flush, <<>>, <<>>, <<>>)
        /\ geolocation_id_cache' = IF c.session # session THEN <<>> ELSE geolocation_id_cache
        /\ intent_id_cache' = IF c.session # session THEN <<>> ELSE intent_id_cache
        /\ UNCHANGED <<host, uuids, phase, appended>>

\* recognizer_loop:utterance
handler_utterance(utterances, fault, k) ==
    LET c == check_active_session(fault, k)
        g == get_id(c.id_counters, c.session, "utterance")
    IN  /\ phase = "up"
        /\ IF hostSession # session THEN FaultApplies(fault, k) ELSE fault = "ok" /\ k = 0
        /\ c.raised = "none" => Allocations < MaxMinted
        /\ session' = c.session
        /\ bindings' = c.bindings
        /\ folders' = c.folders
        /\ files' = c.files
        /\ log' = c.log
        /\ nfail' = IF c.raised = "OSError" THEN nfail + 1 ELSE nfail
        /\ IF c.raised # "none"
           THEN /\ id_counters' = c.id_counters
                /\ utterance_id_cache' = c.utterance_id_cache
                /\ minted' = minted
           ELSE /\ id_counters' = g.counters
                /\ utterance_id_cache' = Put(c.utterance_id_cache, utterances, g.id)
                /\ minted' = minted \cup {Mint(minted, "utterance", c.session, g.id)}
        /\ lastOp' = Op("utterance", c.raised, c.flush, <<>>, <<>>, <<>>)
        /\ UNCHANGED <<host, geolocation_id_cache, intent_id_cache, uuids, phase, appended>>

\* what the message of skill.prov_auditor.log_intent carries besides the utterances
intent_type == "handle"
intent_data == "{}"
identity_uuid == "mycroft"

\* skill.prov_auditor.log_intent
handler_log_intent(utterances, skill_id) ==
    LET g == get_id(id_counters, session, "intent")
        row == IntentMatchingBinding(get_user_id, identity_uuid,
                   utterance_id_cache[utterances], utterances[1], g.id,
                   skill_id \o "/" \o intent_type, skill_id, intent_data, Timestamp)
    IN  /\ phase = "up"
        /\ IF id_counters = NoCounters
           THEN /\ lastOp' = Op("intent", "TypeError", "none", <<>>, <<>>, <<>>)
                /\ UNCHANGED <<id_counters, intent_id_cache, bindings, appended, minted>>
           ELSE /\ Allocations < MaxMinted
                /\ Appends < MaxAppends
                /\ id_counters' = g.counters
                /\ intent_id_cache' = Put(intent_id_cache, skill_id, g.id)
                /\ minted' = minted \cup {Mint(minted, "intent", session, g.id)
                                           @@ [skill |-> skill_id]}
                /\ IF utterances \notin DOMAIN utterance_id_cache
                   THEN /\ lastOp' = Op("intent", "KeyError", "none", <<>>, <<>>, <<>>)
                        /\ UNCHANGED <<bindings, appended>>
                   ELSE /\ bindings' = Append(bindings, row)
                        /\ appended' = Append(appended, [row |-> row, host |-> hostSession,
                                                          tracked |-> session, geo |-> NoGeo])
                        /\ lastOp' = Op("intent", "none", "none", <<>>, <<>>, <<>>)
        /\ UNCHANGED <<host, session, utterance_id_cache, geolocation_id_cache, disk,
                       uuids, phase, nfail>>

\* get_geolocation_id minting without looking the pair up
get_geolocation_id_nolookup(latitude, longitude) ==
    LET key == <<latitude, longitude>>
        geolocation_id == get_user_data_id("geolocation") \o "/"
                            \o ToString(Cardinality(DOMAIN geolocation_id_cache) + 1)
    IN  [id |-> geolocation_id,
         cache |-> Put(geolocation_id_cache, key, geolocation_id),
         rows |-> <<UserDatapointBinding(get_user_id, geolocation_id, "UserGeoLocation",
                       ToString(latitude) \o "," \o ToString(longitude))>>,
         minted |-> {Mint(minted, "geolocation", NoSession, geolocation_id)}]

\* get_geolocation_id: the identifier, the cache and the rows it appends
get_geolocation_id(latitude, longitude) ==
    LET key == <<latitude, longitude>>
        geolocation_id == get_user_data_id("geolocation") \o "/"
                            \o ToString(Cardinality(DOMAIN geolocation_id_cache) + 1)
    IN  IF key \in DOMAIN geolocation_id_cache
        THEN [id |-> geolocation_id_cache[key], cache |-> geolocation_id_cache,
              rows |-> <<>>, minted |-> {}]
        ELSE [id |-> geolocation_id,
              cache |-> Put(geolocation_id_cache, key, geolocation_id),
              rows |-> <<UserDatapointBinding(get_user_id, geolocation_id, "UserGeoLocation",
                            ToString(latitude) \o "," \o ToString(longitude))>>,
              minted |-> {Mint(minted, "geolocation", NoSession, geolocation_id)}]

service == "api.example.org"         \* message.context["service"] without "https://"
uuid4(n) == ToString(n)              \* the n-th random token drawn

\* skill.prov_auditor.log_bindings
handler_log_bindings(skill_id, geo) ==
    LET geoloc == get_geolocation_id(geo[1], geo[2])
        row == SkillInvocationBinding(skill_id, service,
                   IF skill_id \in DOMAIN intent_id_cache THEN intent_id_cache[skill_id] ELSE None,
                   None, geoloc.id,
                   "req/" \o uuid4(uuids + 1), "APIRequest", None, Timestamp,
                   "res/" \o uuid4(uuids + 2), "APIResponse", None, Timestamp \o "+d",
                   "act/" \o uuid4(uuids + 3))
        rows == Append(geoloc.rows, row)
    IN  /\ phase = "up"
        /\ IF geo = NoGeo
           THEN /\ lastOp' = Op("bindings", "KeyError", "none", <<>>, <<>>, <<>>)
                /\ UNCHANGED <<geolocation_id_cache, bindings, uuids, appended, minted>>
           ELSE /\ Appends < MaxAppends
                /\ uuids' = uuids + 3
                /\ geolocation_id_cache' = geoloc.cache
                /\ bindings' = bindings \o rows
                /\ appended' = appended \o [i \in DOMAIN rows |->
                                   [row |-> rows[i], host |-> hostSession,
                                    tracked |-> session, geo |-> geo]]
                /\ minted' = minted \cup geoloc.minted
                /\ lastOp' = Op("bindings", "none", "none", <<>>, <<>>, <<>>)
        /\ UNCHANGED <<host, session, id_counters, utterance_id_cache, intent_id_cache,
                       disk, phase, nfail>>

\* shutdown, after which the host delivers nothing more to this object
shutdown(fault, k) ==
    LET p == persist_bindings(fault, k)
    IN  /\ phase = "up"
        /\ FaultApplies(fault, k)
        /\ phase' = "down"
        /\ bindings' = p.bindings
        /\ folders' = p.folders
        /\ files' = p.files
        /\ log' = p.log
        /\ nfail' = IF p.raised = "OSError" THEN nfail + 1 ELSE nfail
        /\ lastOp' = Op("shutdown", p.raised, p.flush, <<>>, <<>>, <<>>)
        /\ UNCHANGED <<host, session, id_counters, caches, uuids, appended, minted>>

\* the process ends (after shutdown(), or killed while up) and starts again:
\* __init__ builds a new ProvAuditor over the same bindings folder. fresh tells
\* whether the host comes back with a new Session object (the host process was
\* restarted) or with the one it had (only the skill was reloaded)
Restart(fresh) ==
    /\ fresh => hostSession < MaxSessions
    /\ hostSession' = IF fresh THEN hostSession + 1 ELSE hostSession
    /\ session' = NoSession
    /\ id_counters' = NoCounters
    /\ utterance_id_cache' = <<>>
    /\ geolocation_id_cache' = <<>>
    /\ intent_id_cache' = <<>>
    /\ bindings' = <<>>
    /\ phase' = "up"
    /\ lastOp' = Op("restart", "none", "none", <<>>, <<>>, <<>>)
    /\ UNCHANGED <<touched, disk, uuids, appended, minted, nfail>>

\* collect_bindings_lines leaving the in-memory bindings out
collect_stored_only(order) == Flatten([i \in DOMAIN order |-> files[order[i]]])

\* collect_bindings_lines, the record files read in the order glob yields them
collect_bindings_lines(order) ==
    Flatten([i \in DOMAIN order |-> files[order[i]]])
        \o (IF bindings # <<>> THEN CsvRows(bindings) ELSE <<>>)

\* str.strip on a paragraph
strip(p) == IF p = " " THEN "" ELSE p

\* generate_narratives lines 194-196: the non-empty stripped paragraphs
sentences_of(text) == SelectSeqBy([i \in DOMAIN text |-> strip(text[i])],
                                  {strip(text[i]) : i \in DOMAIN text} \ {""})

Fallback == "No data was recorded in my log"

\* handle_auditor_prov: expand_provenance (log2prov), provman_narrate_batch, speak.
\* expansion and narration are the exit status of the two tools, text the
\* narrative the second tool writes
handle_auditor_prov(order, expansion, narration, text) ==
    LET corpus == collect_bindings_lines(order)
        sentences == sentences_of(text)
    IN  /\ phase = "up"
        /\ lastOp' =
             IF expansion # 0
             THEN Op("audit", "CalledProcessError", "none", <<"provconvert">>, <<>>, corpus)
             ELSE IF narration # 0
             THEN Op("audit", "CalledProcessError", "none",
                     <<"provconvert", "provmanagement">>, <<>>, corpus)
             ELSE Op("audit", "none", "none", <<"provconvert", "provmanagement">>,
                     IF sentences # <<>> THEN sentences ELSE <<Fallback>>, corpus)
        /\ UNCHANGED <<host, session, id_counters, caches, bindings, disk, uuids, phase,
                       appended, minted, nfail>>

\* the audit request as the steps it takes around the two calls of
\* call_external_tool, which wait in p.communicate(input=b_input, timeout=None)
\* until the tool has exited.
\* handle_auditor_prov up to its first wait: collect the bindings, start
\* provconvert (log2prov)
expand_provenance(order, outcome) ==
    /\ phase = "up"
    /\ phase' = "provconvert/" \o outcome
    /\ lastOp' = Op("audit", "pending", "none", <<"provconvert">>, <<>>,
                    collect_bindings_lines(order))
    /\ UNCHANGED <<host, session, id_counters, caches, bindings, disk, uuids,
                   appended, minted, nfail>>

\* provconvert has exited: log2prov raises CalledProcessError, or returns and
\* generate_narratives starts provmanagement (provman_narrate_batch)
log2prov(outcome) ==
    /\ phase \in {"provconvert/exit0", "provconvert/exit1"}
    /\ IF phase = "provconvert/exit1"
       THEN /\ phase' = "up"
            /\ lastOp' = [lastOp EXCEPT !.raised = "CalledProcessError"]
       ELSE /\ phase' = "provmanagement/" \o outcome
            /\ lastOp' = [lastOp EXCEPT !.tools = <<"provconvert", "provmanagement">>]
    /\ UNCHANGED <<host, session, id_counters, caches, bindings, disk, uuids,
                   appended, minted, nfail>>

\* provmanagement has exited: provman_narrate_batch raises CalledProcessError,
\* or returns the narrative and handle_auditor_prov speaks
provman_narrate_batch(text) ==
    /\ phase \in {"provmanagement/exit0", "provmanagement/exit1"}
    /\ phase' = "up"
    /\ lastOp' = IF phase = "provmanagement/exit1"
                 THEN [lastOp EXCEPT !.raised = "CalledProcessError"]
                 ELSE [lastOp EXCEPT !.raised = "none",
                                     !.spoken = IF sentences_of(text) # <<>>
                                                THEN sentences_of(text) ELSE <<Fallback>>]
    /\ UNCHANGED <<host, session, id_counters, caches, bindings, disk, uuids,
                   appended, minted, nfail>>

\* the well-formed notifications and the shutdown, the storage failing where it may
Next ==
    \/ NewSession
    \/ \E u \in Utterances, fault \in Faults, k \in 0..(2 * MaxAppends) : handler_utterance(u, fault, k)
    \/ \E u \in Utterances, skill \in Skills : handler_log_intent(u, skill)
    \/ \E skill \in Skills, geo \in Coordinates : handler_log_bindings(skill, geo)
    \/ \E fault \in Faults, k \in 0..(2 * MaxAppends) : shutdown(fault, k)

Spec == Init /\ [][Next]_vars

\* the notifications, also those without geolocation data, the shutdown and
\* the audit request, the storage working
NextAudit ==
    \/ NewSession
    \/ \E u \in Utterances : handler_utterance(u, "ok", 0)
    \/ \E u \in Utterances, skill \in Skills : handler_log_intent(u, skill)
    \/ \E skill \in Skills, geo \in Coordinates \cup {NoGeo} : handler_log_bindings(skill, geo)
    \/ shutdown("ok", 0)
    \/ \E order \in Perms(DOMAIN files), expansion \in {0, 1}, narration \in {0, 1},
          text \in Narratives : handle_auditor_prov(order, expansion, narration, text)

SpecAudit == Init /\ [][NextAudit]_vars

\* the notifications and the shutdown with the storage working, over several
\* process lifetimes
NextRestart ==
    \/ NewSession
    \/ \E u \in Utterances : handler_utterance(u, "ok", 0)
    \/ \E u \in Utterances, skill \in Skills : handler_log_intent(u, skill)
    \/ \E skill \in Skills, geo \in Coordinates : handler_log_bindings(skill, geo)
    \/ shutdown("ok", 0)
    \/ \E fresh \in BOOLEAN : Restart(fresh)

SpecRestart == Init /\ [][NextRestart]_vars

\* what reaches the store: the utterances and the skill invocations, the
\* shutdown, the storage failing where it may, the host touching its session
NextStore ==
    \/ NewSession
    \/ Touch
    \/ \E u \in Utterances, fault \in Faults, k \in 0..(2 * MaxAppends) : handler_utterance(u, fault, k)
    \/ \E skill \in Skills, geo \in Coordinates : handler_log_bindings(skill, geo)
    \/ \E fault \in Faults, k \in 0..(2 * MaxAppends) : shutdown(fault, k)

SpecStore == Init /\ [][NextStore]_vars

\* the audit request step by step among utterances and skill invocations, the
\* storage working
NextTools ==
    \/ NewSession
    \/ \E u \in Utterances : handler_utterance(u, "ok", 0)
    \/ \E skill \in Skills, geo \in Coordinates : handler_log_bindings(skill, geo)
    \/ shutdown("ok", 0)
    \/ \E order \in Perms(DOMAIN files), outcome \in ToolOutcomes : expand_provenance(order, outcome)
    \/ \E outcome \in ToolOutcomes : log2prov(outcome)
    \/ \E text \in Narratives : provman_narrate_batch(text)

\* a call of p.communicate() returns once the tool has exited
SpecTools ==
    /\ Init /\ [][NextTools]_vars
    /\ WF_vars(\E outcome \in ToolOutcomes : log2prov(outcome))
    /\ WF_vars(\E text \in Narratives : provman_narrate_batch(text))

\* ------------------------------------------------------------- properties
\* positions of the rows in the record files, and the rows there
StoredAt == UNION {{<<f, i>> : i \in DOMAIN files[f]} : f \in DOMAIN files}
StoredRows == {files[at[1]][at[2]] : at \in StoredAt}
AppendedRows == [i \in DOMAIN appended |-> appended[i].row]
Invocations == {i \in DOMAIN appended : appended[i].row[1] = "skill_invocation"}
Intents == {i \in DOMAIN appended : appended[i].row[1] = "intent_matching"}
Notifications == {"utterance", "intent", "bindings"}

\* C1: the allocations of one kind made while one session is tracked return
\* kind/session/1, kind/session/2, ... in that order, so no two of them are equal.
C1_OrdinalsContiguous ==
    /\ \A m \in minted : m.kind \in Kinds => m.id = IdOf(m.kind, m.session, m.nth)
    /\ \A m1, m2 \in minted : m1 # m2 => m1.id # m2.id

\* C1 witness: two allocations of a kind in the first session, and one of the
\* same kind in the second.
C1_Witness ==
    \E m1, m2 \in minted :
        /\ m1.kind = m2.kind /\ m1.kind \in Kinds
        /\ m1.session = 1 /\ m1.nth = 2
        /\ m2.session = 2 /\ m2.nth = 1

\* the copies of the user_datapoint binding of identifier id in store and buffer
DatapointCopies(id) ==
    Cardinality({at \in StoredAt : /\ files[at[1]][at[2]][1] = "user_datapoint"
                                   /\ files[at[1]][at[2]][3] = id})
    + Cardinality({i \in DOMAIN bindings : /\ bindings[i][1] = "user_datapoint"
                                           /\ bindings[i][3] = id})

\* skill invocations of the same pair carry the same geolocation identifier,
\* the one the cache holds, and those of distinct pairs distinct ones
SamePairSameId ==
    /\ \A i \in Invocations :
          /\ appended[i].geo \in DOMAIN geolocation_id_cache
          /\ appended[i].row[6] = geolocation_id_cache[appended[i].geo]
    /\ \A i, j \in Invocations :
          (appended[i].geo = appended[j].geo) <=> (appended[i].row[6] = appended[j].row[6])

\* C2 as claimed: one identifier per pair, and store plus buffer hold exactly
\* one user_datapoint binding for each pair resolved.
C2_ExactlyOneInLedger ==
    /\ SamePairSameId
    /\ \A key \in DOMAIN geolocation_id_cache :
          DatapointCopies(geolocation_id_cache[key]) = 1

\* C2 amended: one identifier per pair, distinct pairs distinct identifiers, and
\* exactly one user_datapoint binding is appended for each pair; store plus
\* buffer hold it at least once, and exactly once while no flush has failed.
C2_OneAppendPerPair ==
    /\ SamePairSameId
    /\ \A key \in DOMAIN geolocation_id_cache :
          /\ Cardinality({i \in DOMAIN appended :
                 /\ appended[i].row[1] = "user_datapoint"
                 /\ appended[i].row[3] = geolocation_id_cache[key]
                 /\ appended[i].geo = key}) = 1
          /\ DatapointCopies(geolocation_id_cache[key]) >= 1
          /\ nfail = 0 => DatapointCopies(geolocation_id_cache[key]) = 1

\* C2 witness: the same pair resolved under two tracked sessions.
C2_Witness ==
    \E i, j \in Invocations :
        /\ i # j
        /\ appended[i].geo = appended[j].geo
        /\ appended[i].tracked # appended[j].tracked
        /\ appended[j].tracked # NoSession /\ appended[i].tracked # NoSession

\* C3 as claimed: every row in a session's record file is a binding whose
\* notification arrived while that session was the host's current session.
C3_NoWrongSession ==
    \A at \in StoredAt : \A i \in DOMAIN appended :
        CsvRow(appended[i].row) = files[at[1]][at[2]] =>
            session_id(appended[i].host) = session_id(at[1][2])

\* C4 as claimed: after a notification has been processed the tracked session
\* is the host's current session, and every identifier allocated embeds the
\* identifier of the session that was the host's when it was allocated.
C4_TrackedIsHost ==
    /\ (lastOp.op \in Notifications /\ lastOp.raised = "none") => session = hostSession
    /\ \A m \in minted : m.kind \in Kinds => m.id = IdOf(m.kind, m.host, m.nth)

\* no binding appended is missing from both the buffer and the store
NoBindingLost ==
    \A i \in DOMAIN appended :
        \/ CsvRow(appended[i].row) \in StoredRows
        \/ appended[i].row \in Range(bindings)

\* C5: a flush that succeeds leaves the buffer empty and has appended every
\* buffered row to the session's file; a flush that raises leaves the buffer as
\* it was; and no binding appended is ever in neither the buffer nor the store.
C5_FlushKeepsOrEmpties ==
    [][/\ lastOp'.flush = "saved" =>
            /\ bindings' = <<>>
            /\ file_path(session) \in DOMAIN files'
            /\ files'[file_path(session)] =
                 (IF file_path(session) \in DOMAIN files THEN files[file_path(session)] ELSE <<>>)
                 \o CsvRows(bindings)
       /\ lastOp'.flush = "raised" => bindings' = bindings
       /\ NoBindingLost']_vars

\* C5 witness: a flush of two or more bindings failed after some rows had
\* reached the file, and the buffer still holds them.
C5_Witness ==
    /\ lastOp.flush = "raised" /\ lastOp.raised = "OSError"
    /\ Len(bindings) >= 2
    /\ StoredAt # {}

\* C6 as claimed: collect_all() returns the appended bindings in append order.
C6_AppendOrder ==
    lastOp.op = "audit" => lastOp.corpus = CsvRows(AppendedRows)

\* the place of a row in a corpus
Pos(corpus, row) == CHOOSE n \in DOMAIN corpus : corpus[n] = row

\* C6 amended: collect_all() returns every appended binding exactly once, as
\* csv writes it, the unflushed buffer last, and the bindings appended while
\* one session was tracked in append order; the files of different sessions
\* come in the order the file system lists them.
C6_RoundTrip ==
    lastOp.op = "audit" =>
        LET c == lastOp.corpus
            a == CsvRows(AppendedRows)
        IN  /\ Len(c) = Len(a)
            /\ \A i, j \in DOMAIN a : i # j => a[i] # a[j]
            /\ Range(c) = Range(a)
            /\ \A i, j \in DOMAIN a :
                  (i < j /\ appended[i].tracked = appended[j].tracked)
                      => Pos(c, a[i]) < Pos(c, a[j])
            /\ SubSeq(c, Len(c) - Len(bindings) + 1, Len(c)) = CsvRows(bindings)

\* C6 witness: an audit that read two record files in the other order than
\* they were written.
C6_Witness ==
    /\ lastOp.op = "audit"
    /\ Cardinality(DOMAIN files) = 2
    /\ lastOp.corpus # CsvRows(AppendedRows)

\* C7 as claimed: shutdown with a working store ends with an empty buffer,
\* every binding in the store and no error.
C7_ShutdownFlushes ==
    (phase = "down" /\ lastOp.raised # "OSError") =>
        /\ bindings = <<>>
        /\ lastOp.raised = "none"
        /\ \A i \in DOMAIN appended : CsvRow(appended[i].row) \in StoredRows

\* C8 as claimed: an audit request with nothing recorded speaks the fallback
\* message and invokes no external tool.
C8_EmptyAuditNoTools ==
    (lastOp.op = "audit" /\ StoredAt = {} /\ bindings = <<>>) =>
        /\ lastOp.spoken = <<Fallback>>
        /\ lastOp.tools = <<>>

\* C9: a flush with nothing buffered (at shutdown, or at a session change) raises
\* nothing and leaves folders, files, log and buffer as they were; at shutdown,
\* where the flush is all that runs, counters, caches and tracked session too.
C9_EmptyFlushNoOp ==
    [][(bindings = <<>> /\ (lastOp'.op = "shutdown"
                            \/ (lastOp'.op = "utterance" /\ hostSession # session))) =>
          /\ lastOp'.raised = "none"
          /\ disk' = disk
          /\ bindings' = <<>>
          /\ lastOp'.op = "shutdown" =>
                /\ session' = session
                /\ id_counters' = id_counters
                /\ caches' = caches]_vars

\* C9 witness: shutdown with an empty buffer while a session is tracked and
\* record files exist.
C9_Witness ==
    /\ phase = "down" /\ lastOp.flush = "nothing"
    /\ session # NoSession
    /\ StoredAt # {}

\* C10: every identifier a binding refers to was minted: the utterance of an
\* intent_matching binding by get_id while the session tracked at the append was
\* tracked (so an intent whose utterance the cache does not hold appends
\* nothing), its intent by get_id, the intent of a skill_invocation binding (when
\* not None) by get_id, and its datapoint by get_geolocation_id.
C10_NoForwardReferences ==
    /\ \A i \in Intents :
          /\ \E m \in minted : /\ m.kind = "utterance" /\ m.id = appended[i].row[4]
                               /\ m.session = appended[i].tracked
          /\ \E m \in minted : m.kind = "intent" /\ m.id = appended[i].row[6]
    /\ \A i \in Invocations :
          /\ appended[i].row[4] # None =>
                \E m \in minted : m.kind = "intent" /\ m.id = appended[i].row[4]
          /\ \E m \in minted : m.kind = "geolocation" /\ m.id = appended[i].row[6]
    /\ \A i \in DOMAIN bindings : \E j \in DOMAIN appended : appended[j].row = bindings[i]
    /\ \A row \in StoredRows : \E j \in DOMAIN appended : CsvRow(appended[j].row) = row

\* C10 witness: an intent_matching binding and a skill_invocation binding that
\* refers to its intent.
C10_Witness ==
    \E i \in Intents, j \in Invocations : appended[j].row[4] = appended[i].row[6]

\* the rows collect_all() returns, in whatever order: the record files and the
\* unflushed buffer as csv writes it
Ledger == StoredRows \cup Range(CsvRows(bindings))

\* C11 as claimed: over session switches and process restarts the ledger has no
\* two user_datapoint rows with one datapoint identifier and different values,
\* no two intent_matching rows with one intent identifier, and every intent or
\* datapoint identifier of a skill_invocation row is that of an intent_matching
\* or user_datapoint row of the ledger.
C11_NoDuplicateNoDangling ==
    /\ \A r1, r2 \in Ledger :
          (r1[1] = "user_datapoint" /\ r2[1] = "user_datapoint" /\ r1[3] = r2[3])
              => r1[5] = r2[5]
    /\ \A r1, r2 \in Ledger :
          (r1[1] = "intent_matching" /\ r2[1] = "intent_matching" /\ r1[6] = r2[6])
              => r1 = r2
    /\ \A r \in Ledger : r[1] = "skill_invocation" =>
          /\ r[4] # "" => \E q \in Ledger : q[1] = "intent_matching" /\ q[6] = r[4]
          /\ r[6] # "" => \E q \in Ledger : q[1] = "user_datapoint" /\ q[3] = r[6]

\* C12 as claimed: a skill-invocation notification without geolocation data
\* raises nothing and appends one binding, a skill_invocation whose
\* user_datapoint is None (written as the empty field), and no user_datapoint
\* binding.
C12_NoGeoTolerated ==
    [][\A skill \in Skills : handler_log_bindings(skill, NoGeo) =>
          /\ lastOp'.raised = "none"
          /\ Len(bindings') = Len(bindings) + 1
          /\ SubSeq(bindings', 1, Len(bindings)) = bindings
          /\ bindings'[Len(bindings')][1] = "skill_invocation"
          /\ bindings'[Len(bindings')][6] = None
          /\ CsvRow(bindings'[Len(bindings')])[6] = ""]_vars

\* C13 as claimed: an audit request during which the expansion tool or the
\* narrative tool exits non-zero raises nothing out of the handler and speaks a
\* failure explanation; buffer, store, counters, caches and tracked session stay
\* as they were, and the skill still takes audit requests.
C13_ToolFailureExplained ==
    [][\A order \in Perms(DOMAIN files), expansion \in {0, 1}, narration \in {0, 1},
          text \in Narratives :
          (handle_auditor_prov(order, expansion, narration, text)
             /\ (expansion # 0 \/ narration # 0)) =>
                /\ lastOp'.raised = "none"
                /\ lastOp'.spoken # <<>>
                /\ UNCHANGED <<session, id_counters, caches, bindings, disk>>
                /\ phase' = "up"]_vars

\* C14 as claimed: an utterance notification whose tuple of alternatives the
\* utterance cache already holds, the tracked session being the host's, keeps
\* the cached identifier for it and mints none: the counters stay as they were.
C14_UtteranceDeduplicated ==
    [][\A u \in Utterances :
          (handler_utterance(u, "ok", 0) /\ hostSession = session
             /\ u \in DOMAIN utterance_id_cache) =>
                /\ utterance_id_cache' = utterance_id_cache
                /\ id_counters' = id_counters
                /\ minted' = minted]_vars

\* C15 as claimed: a notification whose handler raises (the flush of the session
\* change failing, or an intent whose utterance the cache does not hold) leaves
\* the tracked session, the counters, the three caches and the buffer as they
\* were.
C15_FailedNotificationKeepsState ==
    [][(lastOp'.op \in Notifications /\ lastOp'.raised # "none") =>
          /\ session' = session
          /\ id_counters' = id_counters
          /\ caches' = caches
          /\ bindings' = bindings]_vars

\* C16 as claimed: an utterance notification that finds the host's session
\* changed flushes the buffer to the file of the session tracked until then,
\* raising nothing and leaving the store alone when the buffer is empty or no
\* session was tracked; then it resets the counters, clears the utterance cache
\* and adopts the host's session, so that the utterance it allocates, and the
\* first identifier of every kind under the adopted session, has ordinal 1; when
\* the flush raises, tracked session, counters and utterance cache stay.
C16_SessionChangeOrder ==
    [][(lastOp'.op = "utterance" /\ hostSession # session) =>
          /\ (bindings = <<>> \/ session = NoSession) =>
                /\ lastOp'.raised = "none"
                /\ disk' = disk
          /\ lastOp'.raised = "none" =>
                /\ (bindings # <<>> /\ session # NoSession) =>
                      /\ file_path(session) \in DOMAIN files'
                      /\ files'[file_path(session)] =
                           (IF file_path(session) \in DOMAIN files
                            THEN files[file_path(session)] ELSE <<>>) \o CsvRows(bindings)
                      /\ bindings' = <<>>
                /\ session' = hostSession
                /\ id_counters' = [kind \in Kinds |-> IF kind = "utterance" THEN 1 ELSE 0]
                /\ Range(utterance_id_cache') = {IdOf("utterance", hostSession, 1)}
                /\ \A m \in minted' : (m.kind \in Kinds /\ m.nth = 1) =>
                                          m.id = IdOf(m.kind, m.session, 1)
          /\ lastOp'.raised # "none" =>
                /\ session' = session
                /\ id_counters' = id_counters
                /\ utterance_id_cache' = utterance_id_cache]_vars

\* the rows of record file f in the store fs, none when the file does not exist
RowsOf(fs, f) == IF f \in DOMAIN fs THEN fs[f] ELSE <<>>

\* C17 as claimed: a flush that raises has left in the session's file all the
\* rows of the buffer or none of them.
C17_AllOrNothing ==
    [][(lastOp'.flush = "raised" /\ lastOp'.raised = "OSError") =>
          \/ RowsOf(files', file_path(session)) = RowsOf(files, file_path(session))
          \/ RowsOf(files', file_path(session)) =
                RowsOf(files, file_path(session)) \o CsvRows(bindings)]_vars

\* the intent identifier minted last for a skill (None when none was): the one
\* of the latest tracked session, and of the highest ordinal in it
LatestIntent(set, skill) ==
    LET ms == {m \in set : m.kind = "intent" /\ m.skill = skill}
    IN  IF ms = {} THEN None
        ELSE (CHOOSE m \in ms : \A o \in ms :
                  \/ o.session < m.session
                  \/ (o.session = m.session /\ o.nth <= m.nth)).id

IsPrefix(s, t) == Len(s) <= Len(t) /\ SubSeq(t, 1, Len(s)) = s

C20_AuditEnds == (lastOp.raised = "pending") ~> (lastOp.raised # "pending")
====
